---- MODULE Spec2Model ----
(***************************************************************************)
(* str_id: a process-wide string interner (src/lib.rs).                    *)
(*                                                                         *)
(* State: the atomic counter NEXT_STR_ID, the lazily created STR_CACHE (a  *)
(* RwLock around a BiHashMap<StrID, &'static str>), and the position of    *)
(* every thread inside StrID::from / StrID::as_str.                        *)
(***************************************************************************)
EXTENDS Integers, Sequences, FiniteSets, TLC

\* ---------------------------------------------------------------- bounds
\* Number of threads calling into the library.
NumThreads == 2
\* Texts are the strings "", "a", "aa", ... of at most MaxLen bytes.
MaxLen == 3
\* Width in bits of usize in the model (the counter wraps modulo 2^UsizeBits).
UsizeBits == 2

Threads == 1 .. NumThreads

RECURSIVE Pow2(_)
Pow2(n) == IF n = 0 THEN 1 ELSE 2 * Pow2(n - 1)

\* usize::MAX + 1
UsizeModulus == Pow2(UsizeBits)

\* A str value: a finite sequence of bytes.
TextOf(n) == [i \in 1 .. n |-> "a"]
Texts == {TextOf(n) : n \in 0 .. MaxLen}

\* <&str>::default()
EmptyStr == <<>>

\* The values a StrID can wrap (NonZeroUsize).
StrIDs == 1 .. (UsizeModulus - 1)

\* The value of a StrID-typed local or argument that is not set.
NoID == 0
\* The write guard's owner when nobody holds it.
NoThread == 0

\* The three ownership forms of StrID::from: Box<str>, &str, String.
Forms == {"box", "ref", "string"}

VARIABLES
  NEXT_STR_ID,  \* the AtomicUsize
  once,         \* TRUE once STR_CACHE (the OnceLock) has been initialised
  map,          \* the BiMap inside the RwLock: a set of <<id, str>> pairs
  readers,      \* threads holding a read guard
  writer,       \* the thread holding the write guard, or NoThread
  poisoned,     \* the RwLock's poison flag
  pc,           \* where each thread is
  op,           \* the call each thread is in: "from", "default", "as_str"
  arg,          \* the str argument of the thread's from call
  self,         \* the StrID argument of the thread's as_str call
  id,           \* the local `id` of the from call
  returned,     \* history: the <<str, id>> of every from call that returned
  scenario      \* the one text a convergence scenario interns (SpecConv)

vars == <<NEXT_STR_ID, once, map, readers, writer, poisoned,
          pc, op, arg, self, id, returned, scenario>>

\* ------------------------------------------------------------ BiHashMap
\* BiHashMap::get_by_right: Some(id) as {id}, None as {}.
get_by_right(m, s) == {p[1] : p \in {q \in m : q[2] = s}}

\* BiHashMap::get_by_left: Some(str) as {str}, None as {}.
get_by_left(m, i) == {p[2] : p \in {q \in m : q[1] = i}}

\* BiHashMap::insert: pairs sharing the left or the right value are
\* overwritten.
BiInsert(m, l, r) == {p \in m : p[1] # l /\ p[2] # r} \cup {<<l, r>>}

\* ------------------------------------------------------------ ownership
\* str::to_string, String::into_boxed_str and Box::leak keep the bytes.
to_string(s) == [i \in 1 .. Len(s) |-> s[i]]
into_boxed_str(s) == s
Box_leak(b) == b

\* `leaked` of the three from impls.
Leaked(form, s) ==
  CASE form = "box" -> Box_leak(s)
    [] form = "ref" -> Box_leak(into_boxed_str(to_string(s)))
    [] form = "string" -> Box_leak(into_boxed_str(s))

\* -------------------------------------------------------------- counter
\* AtomicUsize::fetch_add(1, Relaxed): the counter's new value (wrapping).
FetchAdd(v) == (v + 1) % UsizeModulus

\* A try_new that wraps whatever the counter gave, 0 included.
try_new_unchecked(v) == {v}

\* StrID::try_new on the value fetch_add returned:
\* NonZeroUsize::new(v).map(Self), Some(id) as {id}, None as {}.
try_new(v) == IF v # 0 THEN {v} ELSE {}

\* ----------------------------------------------------------------- lock
\* A plain .unwrap() on the LockResult: a poisoned lock is an Err, and the
\* caller panics.
UnwrapPanics(p) == ~p

\* rw_lock.read() / rw_lock.write() followed by
\* .unwrap_or_else(PoisonError::into_inner): the guard is taken whether or
\* not the lock is poisoned.
UnwrapOrIntoInner(p) == TRUE

Init ==
  /\ NEXT_STR_ID = 1
  /\ once = FALSE
  /\ map = {}
  /\ readers = {}
  /\ writer = NoThread
  /\ poisoned = FALSE
  /\ pc = [t \in Threads |-> "idle"]
  /\ op = [t \in Threads |-> "none"]
  /\ arg = [t \in Threads |-> EmptyStr]
  /\ self = [t \in Threads |-> NoID]
  /\ id = [t \in Threads |-> NoID]
  /\ returned = {}
  /\ scenario = EmptyStr

\* A from call begins: STR_CACHE.get_or_init(..).  The three impls are the
\* same statement for statement up to the construction of `leaked`, which is
\* where the ownership form is drawn (from_insert).
Begin(t, kind, s) ==
  /\ pc[t] = "idle"
  /\ pc' = [pc EXCEPT ![t] = "read"]
  /\ op' = [op EXCEPT ![t] = kind]
  /\ arg' = [arg EXCEPT ![t] = s]
  /\ once' = TRUE
  /\ UNCHANGED <<NEXT_STR_ID, map, readers, writer, poisoned, self, id, returned, scenario>>

\* impl From<Box<str>>, From<&str>, From<String> for StrID
from(t) == \E s \in Texts : Begin(t, "from", s)

\* impl Default for StrID: Self::from(<&str>::default())
default(t) == Begin(t, "default", EmptyStr)

\* A thread that panics: unwinding drops its guards; a dropped write guard
\* poisons the lock.  The thread is gone; its frame stays as it was.
Panic(t) ==
  /\ pc' = [pc EXCEPT ![t] = "dead"]
  /\ readers' = readers \ {t}
  /\ writer' = IF writer = t THEN NoThread ELSE writer
  /\ poisoned' = (poisoned \/ writer = t)

\* A from call returns i to its caller.
Return(t, i) ==
  /\ pc' = [pc EXCEPT ![t] = "idle"]
  /\ op' = [op EXCEPT ![t] = "none"]
  /\ arg' = [arg EXCEPT ![t] = EmptyStr]
  /\ returned' = returned \cup {<<arg[t], i>>}

\* let read = rw_lock.read().unwrap_or_else(PoisonError::into_inner);
from_read(t) ==
  /\ pc[t] = "read"
  /\ writer = NoThread
  /\ IF UnwrapOrIntoInner(poisoned)
       THEN /\ readers' = readers \cup {t}
            /\ pc' = [pc EXCEPT ![t] = "lookup"]
            /\ UNCHANGED <<writer, poisoned>>
       ELSE Panic(t)
  /\ UNCHANGED <<NEXT_STR_ID, once, map, op, arg, self, id, returned, scenario>>

\* A from without the read-first path: the first lookup's result is ignored
\* and the call always goes on to the write guard.
from_lookup_ignored(t) ==
  /\ pc[t] = "lookup"
  /\ readers' = readers \ {t}
  /\ pc' = [pc EXCEPT ![t] = "write"]
  /\ UNCHANGED <<op, arg, returned>>
  /\ UNCHANGED <<NEXT_STR_ID, once, map, writer, poisoned, self, id, scenario>>

\* A from that keeps its read guard alive across a miss (no drop(read)).
from_lookup_keeps_read(t) ==
  /\ pc[t] = "lookup"
  /\ LET found == get_by_right(map, arg[t]) IN
       IF found # {}
         THEN /\ readers' = readers \ {t}
              /\ \E i \in found : Return(t, i)
         ELSE /\ pc' = [pc EXCEPT ![t] = "write"]
              /\ UNCHANGED <<readers, op, arg, returned>>
  /\ UNCHANGED <<NEXT_STR_ID, once, map, writer, poisoned, self, id, scenario>>

\* if let Some(id) = read.get_by_right(s) { *id } else { drop(read); ..
from_lookup(t) ==
  /\ pc[t] = "lookup"
  /\ readers' = readers \ {t}
  /\ LET found == get_by_right(map, arg[t]) IN
       IF found # {}
         THEN \E i \in found : Return(t, i)
         ELSE /\ pc' = [pc EXCEPT ![t] = "write"]
              /\ UNCHANGED <<op, arg, returned>>
  /\ UNCHANGED <<NEXT_STR_ID, once, map, writer, poisoned, self, id, scenario>>

\* A from that takes its second guard without waiting for the readers to
\* leave (a guard that does not exclude them).
from_write_shared(t) ==
  /\ pc[t] = "write"
  /\ writer = NoThread
  /\ writer' = t
  /\ pc' = [pc EXCEPT ![t] = "recheck"]
  /\ UNCHANGED <<NEXT_STR_ID, once, map, readers, poisoned, op, arg, self, id,
                 returned, scenario>>

\* let mut write = rw_lock.write().unwrap_or_else(PoisonError::into_inner);
from_write(t) ==
  /\ pc[t] = "write"
  /\ writer = NoThread
  /\ readers = {}
  /\ IF UnwrapOrIntoInner(poisoned)
       THEN /\ writer' = t
            /\ pc' = [pc EXCEPT ![t] = "recheck"]
            /\ UNCHANGED <<readers, poisoned>>
       ELSE Panic(t)
  /\ UNCHANGED <<NEXT_STR_ID, once, map, op, arg, self, id, returned, scenario>>

\* A from without the second lookup: the miss under the read guard is trusted.
RecheckSkipped(m, s) == {}

\* The second lookup, under the write guard: write.get_by_right(s)
Recheck(m, s) == get_by_right(m, s)

\* A from that drops its write guard after the re-check misses, so that the
\* identifier is taken from the counter outside the exclusive section.
from_recheck_drops_guard(t) ==
  /\ pc[t] = "recheck"
  /\ writer' = NoThread
  /\ LET found == Recheck(map, arg[t]) IN
       IF found # {}
         THEN \E i \in found : Return(t, i)
         ELSE /\ pc' = [pc EXCEPT ![t] = "new"]
              /\ UNCHANGED <<op, arg, returned>>
  /\ UNCHANGED <<NEXT_STR_ID, once, map, readers, poisoned, self, id, scenario>>

\* if let Some(id) = write.get_by_right(s) { *id } else { ..
from_recheck(t) ==
  /\ pc[t] = "recheck"
  /\ LET found == Recheck(map, arg[t]) IN
       IF found # {}
         THEN /\ \E i \in found : Return(t, i)
              /\ writer' = NoThread
         ELSE /\ pc' = [pc EXCEPT ![t] = "new"]
              /\ UNCHANGED <<op, arg, returned, writer>>
  /\ UNCHANGED <<NEXT_STR_ID, once, map, readers, poisoned, self, id, scenario>>

\* A from that stores the pair under the raw counter value before it checks
\* the value for 0.
new_insert_first(t) ==
  /\ pc[t] = "new"
  /\ NEXT_STR_ID' = FetchAdd(NEXT_STR_ID)
  /\ map' = BiInsert(map, NEXT_STR_ID, arg[t])
  /\ LET got == try_new(NEXT_STR_ID) IN
       IF got # {}
         THEN /\ \E i \in got : id' = [id EXCEPT ![t] = i]
              /\ pc' = [pc EXCEPT ![t] = "insert"]
              /\ UNCHANGED <<readers, writer, poisoned>>
         ELSE /\ Panic(t)
              /\ UNCHANGED id
  /\ UNCHANGED <<once, op, arg, self, returned, scenario>>

\* let id: StrID = StrID::new();
\* StrID::new is try_new().expect("exhausted the available StrID values!")
new(t) ==
  /\ pc[t] = "new"
  /\ NEXT_STR_ID' = FetchAdd(NEXT_STR_ID)
  /\ LET got == try_new(NEXT_STR_ID) IN
       IF got # {}
         THEN /\ \E i \in got : id' = [id EXCEPT ![t] = i]
              /\ pc' = [pc EXCEPT ![t] = "insert"]
              /\ UNCHANGED <<readers, writer, poisoned>>
         ELSE /\ Panic(t)
              /\ UNCHANGED id
  /\ UNCHANGED <<once, map, op, arg, self, returned, scenario>>

\* A from that never lets go of its write guard (the guard is leaked instead
\* of dropped at the end of the call).
from_insert_keeps_guard(t) ==
  /\ pc[t] = "insert"
  /\ \E form \in (IF op[t] = "default" THEN {"ref"} ELSE Forms) :
       map' = BiInsert(map, id[t], Leaked(form, arg[t]))
  /\ Return(t, id[t])
  /\ id' = [id EXCEPT ![t] = NoID]
  /\ UNCHANGED <<NEXT_STR_ID, once, readers, writer, poisoned, self, scenario>>

\* let leaked = Box::leak(..); write.insert(id, leaked); id
from_insert(t) ==
  /\ pc[t] = "insert"
  /\ \E form \in (IF op[t] = "default" THEN {"ref"} ELSE Forms) :
       map' = BiInsert(map, id[t], Leaked(form, arg[t]))
  /\ Return(t, id[t])
  /\ id' = [id EXCEPT ![t] = NoID]
  /\ writer' = NoThread
  /\ UNCHANGED <<NEXT_STR_ID, once, readers, poisoned, self, scenario>>

\* The StrID values some caller holds: those a from call has returned.
Held == {p[2] : p \in returned}

\* StrID::as_str begins on the identifier i: STR_CACHE.get_or_init(..).
AsStrBegin(t, i) ==
  /\ pc[t] = "idle"
  /\ self' = [self EXCEPT ![t] = i]
  /\ op' = [op EXCEPT ![t] = "as_str"]
  /\ pc' = [pc EXCEPT ![t] = "as_read"]
  /\ once' = TRUE
  /\ UNCHANGED <<NEXT_STR_ID, map, readers, writer, poisoned, arg, id, returned, scenario>>

\* StrID::as_str, called on an identifier obtained from from or default.
as_str(t) == \E i \in Held : AsStrBegin(t, i)

\* let read = rw_lock.read().unwrap_or_else(PoisonError::into_inner);
as_str_read(t) ==
  /\ pc[t] = "as_read"
  /\ writer = NoThread
  /\ IF UnwrapOrIntoInner(poisoned)
       THEN /\ readers' = readers \cup {t}
            /\ pc' = [pc EXCEPT ![t] = "as_get"]
            /\ UNCHANGED <<writer, poisoned>>
       ELSE Panic(t)
  /\ UNCHANGED <<NEXT_STR_ID, once, map, op, arg, self, id, returned, scenario>>

\* What a failed unwrap leaves in place of a str.
Panicked == <<"panic">>

\* An as_str that insists on an entry: read.get_by_left(&self).unwrap()
as_str_value_unwrap(m, i) ==
  LET got == get_by_left(m, i) IN
    IF got # {} THEN CHOOSE s \in got : TRUE ELSE Panicked

\* The value as_str returns: read.get_by_left(&self).unwrap_or(&"")
as_str_value(m, i) ==
  LET got == get_by_left(m, i) IN
    IF got # {} THEN CHOOSE s \in got : TRUE ELSE EmptyStr

\* as_str returns as_str_value(map, self[t]); the read guard is dropped.
as_str_get(t) ==
  /\ pc[t] = "as_get"
  /\ IF as_str_value(map, self[t]) # Panicked
       THEN /\ readers' = readers \ {t}
            /\ pc' = [pc EXCEPT ![t] = "idle"]
            /\ op' = [op EXCEPT ![t] = "none"]
            /\ self' = [self EXCEPT ![t] = NoID]
            /\ UNCHANGED <<writer, poisoned>>
       ELSE /\ Panic(t)
            /\ UNCHANGED <<op, self>>
  /\ UNCHANGED <<NEXT_STR_ID, once, map, arg, id, returned, scenario>>

Next ==
  \E t \in Threads :
    \/ from(t)
    \/ default(t)
    \/ from_read(t)
    \/ from_lookup(t)
    \/ from_write(t)
    \/ from_recheck(t)
    \/ new(t)
    \/ from_insert(t)
    \/ as_str(t)
    \/ as_str_read(t)
    \/ as_str_get(t)

Spec == Init /\ [][Next]_vars

\* ------------------------------------------------------ fair scheduling
\* Every thread that can take a step of its call is scheduled, and the lock
\* does not let a new reader overtake a writer that waits (the queueing of
\* std's RwLock), so neither kind of acquisition is put off forever.
WriterWaiting == \E u \in Threads : pc[u] = "write"

\* rw_lock.read() in from, behind the waiting writers.
from_read_queued(t) == ~WriterWaiting /\ from_read(t)

\* rw_lock.read() in as_str, behind the waiting writers.
as_str_read_queued(t) == ~WriterWaiting /\ as_str_read(t)

\* The steps of thread t inside a call.
Progress(t) ==
  \/ from_read_queued(t)
  \/ from_lookup(t)
  \/ from_write(t)
  \/ from_recheck(t)
  \/ new(t)
  \/ from_insert(t)
  \/ as_str_read_queued(t)
  \/ as_str_get(t)

NextFair ==
  \E t \in Threads :
    \/ from(t)
    \/ default(t)
    \/ as_str(t)
    \/ Progress(t)

FairSpec == Init /\ [][NextFair]_vars /\ \A t \in Threads : WF_vars(Progress(t))

\* --------------------------------------------------- arbitrary identifiers
\* StrID::as_str, called on any value of the type, in the cache or not.
as_str_any(t) == \E i \in StrIDs : AsStrBegin(t, i)

NextAny ==
  \E t \in Threads :
    \/ from(t)
    \/ from_read(t)
    \/ from_lookup(t)
    \/ from_write(t)
    \/ from_recheck(t)
    \/ new(t)
    \/ from_insert(t)
    \/ as_str_any(t)
    \/ as_str_read(t)
    \/ as_str_get(t)

SpecAny == Init /\ [][NextAny]_vars

\* ------------------------------------------------ convergence scenario
\* Every thread interns the same text, `scenario`, which the cache does not
\* hold yet.  The run starts after k other texts were interned one after the
\* other, so the cache holds them under 1 .. k and the counter stands at k + 1
\* (0 once the counter's range is used up).
Min(a, b) == IF a < b THEN a ELSE b

\* The i-th text other than s, by length.
OtherText(s, i) == IF i - 1 < Len(s) THEN TextOf(i - 1) ELSE TextOf(i)

InitConv ==
  \E s \in Texts, k \in 0 .. Min(MaxLen, UsizeModulus - 1) :
    /\ scenario = s
    /\ map = {<<i, OtherText(s, i)>> : i \in 1 .. k}
    /\ returned = {<<OtherText(s, i), i>> : i \in 1 .. k}
    /\ NEXT_STR_ID = (k + 1) % UsizeModulus
    /\ once = (k > 0)
    /\ readers = {}
    /\ writer = NoThread
    /\ poisoned = FALSE
    /\ pc = [t \in Threads |-> "idle"]
    /\ op = [t \in Threads |-> "none"]
    /\ arg = [t \in Threads |-> EmptyStr]
    /\ self = [t \in Threads |-> NoID]
    /\ id = [t \in Threads |-> NoID]

NextConv ==
  \E t \in Threads :
    \/ Begin(t, "from", scenario)
    \/ from_read(t)
    \/ from_lookup(t)
    \/ from_write(t)
    \/ from_recheck(t)
    \/ new(t)
    \/ from_insert(t)

SpecConv == InitConv /\ [][NextConv]_vars

\* The identifiers from calls on text s have returned so far.
IdsOf(s) == {p[2] : p \in {q \in returned : q[1] = s}}

\* Every thread is outside a call (or gone).
Quiescent == \A t \in Threads : pc[t] \in {"idle", "dead"}

\* C1: concurrency convergence.  When the threads all intern the same text,
\* not in the cache at the start, every call that returns hands back the same
\* identifier, and once all calls are over the cache holds exactly one entry
\* for the text, the pair of that identifier and the text.
ConcurrencyConvergence ==
  /\ Cardinality(IdsOf(scenario)) <= 1
  /\ (Quiescent /\ IdsOf(scenario) # {}) =>
       /\ Cardinality({p \in map : p[2] = scenario}) = 1
       /\ \A i \in IdsOf(scenario) : <<i, scenario>> \in map

\* C1 witness: one thread has inserted the text and returned while another,
\* which had missed under its read guard, holds the write guard and is about
\* to find the text on the second lookup.
ConvergenceRace ==
  \E t \in Threads :
    /\ pc[t] = "recheck"
    /\ arg[t] = scenario
    /\ Recheck(map, scenario) # {}
    /\ IdsOf(scenario) = Recheck(map, scenario)

\* ------------------------------------------------------------ claims
\* The cache pairs no identifier with two texts and no text with two
\* identifiers.
Injective(m) ==
  \A p \in m, q \in m : (p[1] = q[1] \/ p[2] = q[2]) => p = q

\* C2: identity.  Any two from calls on the same text return the same
\* identifier, whichever entry points they use and whatever happens between
\* them.
Identity ==
  \A p \in returned, q \in returned : p[1] = q[1] => p[2] = q[2]

\* C3: injectivity.  The cache is one-to-one, and from calls on different
\* texts return different identifiers.
Injectivity ==
  /\ Injective(map)
  /\ \A p \in returned, q \in returned : p[2] = q[2] => p[1] = q[1]

\* C4: round trip and stability.  Once a from call on text s has returned
\* identifier i, every as_str call on i returns exactly s.
RoundTrip ==
  \A t \in Threads :
    pc[t] = "as_get" =>
      \A p \in returned : p[2] = self[t] => as_str_value(map, self[t]) = p[1]

\* C5: append-only cache.  No step removes or replaces a pair the cache
\* holds, also after the counter has run through its range.
AppendOnly == [][map \subseteq map']_vars

\* C6: the counter hands out strictly increasing values.  Every value
\* StrID::new returns is greater than every value it returned before, so no
\* value is issued twice.
StrictlyIncreasing ==
  [][\A t \in Threads :
       (pc[t] = "new" /\ pc'[t] = "insert") =>
         \A p \in map \cup {<<q[2], q[1]>> : q \in returned} : id'[t] > p[1]]_vars

\* C7: non-zero invariant.  No identifier in the cache, returned by from or
\* default, or held in a from call's `id` is 0; a from call whose fetch_add
\* yields 0 never reaches the insert.
NonZero ==
  /\ \A p \in map : p[1] # 0
  /\ \A p \in returned : p[2] # 0
  /\ \A t \in Threads : pc[t] = "insert" => id[t] # 0

\* C7 witness: the counter yielded 0 to a from call, which failed, and the
\* cache holds identifiers.
ZeroRefused ==
  \E t \in Threads :
    /\ pc[t] = "dead"
    /\ NEXT_STR_ID = 1
    /\ map # {}

\* The counter has issued every value a StrID can take.
AllIssued ==
  StrIDs \subseteq ({p[1] : p \in map} \cup {id[t] : t \in Threads})

\* C8: counter exhaustion is final.  Once the counter has issued every
\* available value, no from call obtains an identifier from StrID::new.
ExhaustionIsFinal ==
  [][AllIssued => \A t \in Threads : ~(pc[t] = "new" /\ pc'[t] = "insert")]_vars

\* On a poisoned lock, a thread at an acquisition that finds the lock free
\* in the mode it asks for can take its guard.
CanAcquire(t) ==
  /\ (pc[t] = "read" /\ writer = NoThread) =>
       ENABLED (from_read(t) /\ t \in readers')
  /\ (pc[t] = "as_read" /\ writer = NoThread) =>
       ENABLED (as_str_read(t) /\ t \in readers')
  /\ (pc[t] = "write" /\ writer = NoThread /\ readers = {}) =>
       ENABLED (from_write(t) /\ writer' = t)

\* A thread that holds a guard can take its next step.
CanComplete(t) ==
  /\ pc[t] = "lookup" => ENABLED from_lookup(t)
  /\ pc[t] = "as_get" => ENABLED as_str_get(t)
  /\ pc[t] = "recheck" => ENABLED from_recheck(t)

\* C9: poison recovery.  Once a writer has failed inside the exclusive
\* section, the lock still works: an acquisition that finds the lock free
\* takes its guard, a thread holding a guard goes on, and every acquisition
\* step ends with the guard held, never with the caller failing at the lock.
PoisonRecovery ==
  /\ [](poisoned => \A t \in Threads : CanAcquire(t) /\ CanComplete(t))
  /\ [][poisoned =>
         \A t \in Threads :
           /\ (pc[t] = "read" /\ pc'[t] # "read") =>
                (pc'[t] = "lookup" /\ t \in readers')
           /\ (pc[t] = "as_read" /\ pc'[t] # "as_read") =>
                (pc'[t] = "as_get" /\ t \in readers')
           /\ (pc[t] = "write" /\ pc'[t] # "write") =>
                (pc'[t] = "recheck" /\ writer' = t)
           /\ (pc[t] = "lookup" /\ pc'[t] # "lookup") =>
                pc'[t] \in {"idle", "write"}
           /\ (pc[t] = "as_get" /\ pc'[t] # "as_get") => pc'[t] = "idle"]_vars

\* C9 witness: after a writer failed, another thread took the write guard of
\* the poisoned lock, obtained an identifier and is about to insert.
PoisonedLockInUse ==
  /\ poisoned
  /\ \E t \in Threads : writer = t /\ pc[t] = "insert"

\* C10: a failed writer leaves the cache as it found it.  From the moment a
\* thread holds the write guard until its insert no step changes the cache,
\* and the step in which it fails changes nothing either: the text it was
\* interning is still absent and the cache is still one-to-one.
FailedWriterFrame ==
  [][\A t \in Threads :
       /\ (writer = t /\ pc[t] \in {"recheck", "new"}) => map' = map
       /\ (pc[t] = "new" /\ pc'[t] = "dead") =>
            /\ map' = map
            /\ get_by_right(map', arg[t]) = {}
            /\ Injective(map')]_vars

\* C10 witness: a writer has failed inside the exclusive section; the cache
\* holds the pairs inserted before it and not the failed call's text.
WriterFailed ==
  \E t \in Threads :
    /\ pc[t] = "dead"
    /\ poisoned
    /\ Cardinality(map) = UsizeModulus - 1
    /\ get_by_right(map, arg[t]) = {}

\* The threads inside the exclusive section (between rw_lock.write() and the
\* end of from) and inside a shared section (between rw_lock.read() and the
\* drop of the read guard).
InExclusive == {t \in Threads : pc[t] \in {"recheck", "new", "insert"}}
InShared == {t \in Threads : pc[t] \in {"lookup", "as_get"}}

\* C11: writer exclusion.  While a thread is inside the exclusive section no
\* other thread is inside it or inside a shared section, and every step that
\* changes the cache is the insert of the thread that holds exclusive access.
WriterExclusion ==
  /\ [](/\ InExclusive = (IF writer = NoThread THEN {} ELSE {writer})
        /\ InShared = readers
        /\ Cardinality(InExclusive) <= 1
        /\ (InExclusive # {} => InShared = {}))
  /\ [][map' # map =>
          \E t \in Threads :
            /\ writer = t
            /\ pc[t] = "insert"
            /\ pc'[t] = "idle"
            /\ readers = {}]_vars

\* C11 witness: one thread is inside the exclusive section, about to insert,
\* while another thread waits at the lock.
WriterHoldsOthersWait ==
  \E t \in Threads, u \in Threads :
    /\ t # u
    /\ writer = t
    /\ pc[t] = "insert"
    /\ pc[u] \in {"read", "write", "as_read"}

\* Thread t is inside a call that has started and not returned.
InCall(t) == pc[t] \notin {"idle", "dead"}

RetVal(t) ==
  IF pc[t] = "insert" THEN {id[t]} ELSE get_by_right(map, arg[t])

\* C13: empty-value convergence.  Whenever StrID::default() returns, its
\* identifier is the one every from call on "" has returned, is not 0, and
\* resolves through as_str to "".
DefaultConvergence ==
  [][\A t \in Threads :
       (op[t] = "default" /\ pc[t] # "idle" /\ pc'[t] = "idle") =>
         \A i \in RetVal(t) :
           /\ i # 0
           /\ as_str_value(map', i) = EmptyStr
           /\ \A p \in returned : p[1] = EmptyStr => p[2] = i]_vars

\* Thread t takes a step of an as_str call.
AsStrStep(t) ==
  \/ pc[t] = "idle" /\ pc'[t] = "as_read"
  \/ pc[t] \in {"as_read", "as_get"} /\ pc'[t] # pc[t]

\* C14: resolution is total.  as_str on an identifier with no entry in the
\* cache (the cache empty or not yet created included) returns "" and does
\* not fail, and no step of an as_str call changes the cache or the counter.
ResolutionTotal ==
  /\ [](\A t \in Threads :
          (pc[t] = "as_get" /\ get_by_left(map, self[t]) = {}) =>
            as_str_value(map, self[t]) = EmptyStr)
  /\ [][\A t \in Threads :
          AsStrStep(t) =>
            /\ map' = map
            /\ NEXT_STR_ID' = NEXT_STR_ID
            /\ pc'[t] # "dead"
            /\ (pc[t] = "as_get" => pc'[t] = "idle")]_vars

\* C14 witness: as_str holds the read guard of a cache that has entries, on
\* an identifier that has none.
UnknownIdentifier ==
  \E t \in Threads :
    /\ pc[t] = "as_get"
    /\ map # {}
    /\ get_by_left(map, self[t]) = {}

\* C15: at most one allocation per distinct text.  A step that takes a value
\* from the counter does so for a text no earlier call returned an identifier
\* for, and a call that finds its text on the first lookup or on the re-check
\* returns the identifier in the cache and leaves the counter alone.
OneAllocation ==
  [][\A t \in Threads :
       /\ (pc[t] = "new" /\ NEXT_STR_ID' # NEXT_STR_ID) =>
            \A p \in returned : p[1] # arg[t]
       /\ (pc[t] \in {"lookup", "recheck"} /\ pc'[t] = "idle") =>
            /\ NEXT_STR_ID' = NEXT_STR_ID
            /\ \E i \in get_by_right(map, arg[t]) :
                 returned' = returned \cup {<<arg[t], i>>}]_vars

\* Thread t holds the read guard of from and the lookup will find its text.
FastPath(t) == pc[t] = "lookup" /\ get_by_right(map, arg[t]) # {}

\* C16: fast path.  A from whose text is in the cache when it takes the read
\* guard returns the identifier found there, holding only the read guard: it
\* never goes on to the write guard, and the cache and the counter are the
\* same when it returns.
FastPathFrame ==
  /\ [](\A t \in Threads :
          FastPath(t) => t \in readers /\ writer = NoThread)
  /\ [][\A t \in Threads :
          FastPath(t) =>
            /\ map' = map
            /\ NEXT_STR_ID' = NEXT_STR_ID
            /\ writer' = NoThread
            /\ FastPath(t)' \/
                 /\ pc'[t] = "idle"
                 /\ \E i \in get_by_right(map, arg[t]) :
                      returned' = returned \cup {<<arg[t], i>>}]_vars

\* C16 witness: a thread on the fast path while another waits for the write
\* guard.
FastPathTaken ==
  \E t, u \in Threads :
    /\ FastPath(t)
    /\ \E p \in returned : p[1] = arg[t]
    /\ pc[u] = "write"

\* C17: insertion order matches identifier order.  In the convergence
\* scenario the texts other than `scenario` were inserted before any call of
\* the run began, so the identifier a call of the run inserts `scenario`
\* under is greater than each of theirs.
InsertionOrder ==
  [][\A t \in Threads :
       (pc[t] = "insert" /\ map' # map) =>
         \A p \in returned : p[1] # scenario => id[t] > p[2]]_vars

\* C18: lock discipline on a miss.  A from that misses on the first lookup
\* drops its read guard before it asks for the write guard: no thread holds
\* shared access while it waits for or holds exclusive access.
LockDiscipline ==
  \A t \in Threads :
    /\ pc[t] \in {"write", "recheck", "new", "insert"} => t \notin readers
    /\ writer = t => t \notin readers

\* C18 witness: a thread that missed waits for the write guard, its own read
\* guard gone, while another thread still reads.
MissedAndWaiting ==
  \E t, u \in Threads :
    /\ t # u
    /\ pc[t] = "write"
    /\ get_by_right(map, arg[t]) = {}
    /\ t \notin readers
    /\ u \in readers

\* The counter has handed out its last value: the next one is 0, or 0 was
\* already handed out (the panic of StrID::new is what poisons the lock).
Exhausted == NEXT_STR_ID = 0 \/ poisoned

\* C19: identifiers are dense.  While nobody holds the write guard and the
\* counter is not exhausted, the counter stands at the number of cache entries
\* plus 1 and the identifiers in the cache are exactly 1 .. number of entries.
Dense ==
  (writer = NoThread /\ ~Exhausted) =>
    /\ NEXT_STR_ID = Cardinality(map) + 1
    /\ {p[1] : p \in map} = 1 .. Cardinality(map)

\* C19 witness: the write guard is free again after a second insert, with a
\* thread that lost the race for it still waiting.
DenseAfterInserts ==
  /\ writer = NoThread
  /\ ~Exhausted
  /\ Cardinality(map) = 2
  /\ NEXT_STR_ID = 3
  /\ \E t \in Threads : pc[t] = "write"

TypeOK ==
  /\ NEXT_STR_ID \in 0 .. (UsizeModulus - 1)
  /\ map \subseteq (StrIDs \X Texts)
  /\ readers \subseteq Threads
  /\ writer \in Threads \cup {NoThread}
====
